---- MODULE Spec2Model ----
(***************************************************************************)
(* A model of the 24 game core of roshanr2706/24game:                      *)
(*   app/checker.py  check_expression  (shunting yard + postfix evaluation)*)
(*   app/solver.py   gather, solve24   (work-list search)                  *)
(*   app/generator.py generate_puzzle  (draw until solvable)               *)
(*   app/versus.py   Room, ws_room     (rounds and attempts of a room)     *)
(*                                                                         *)
(* Python values are modelled as records [k, s, n, d]:                     *)
(*   k = "str"   a Python str, s its characters (each a 1-character string)*)
(*   k = "int"   a Python int n (d = 1)                                    *)
(*   k = "float" a Python float, held as the exact fraction n/d in lowest  *)
(*               terms (d > 0).  On hands of cards 0..13 the float         *)
(*               comparisons of both programs agree with the exact ones.   *)
(* Python lists are sequences; index j of Python is index j+1 here.        *)
(* An uncaught Python exception is the outcome [kind |-> "raise", ...].    *)
(***************************************************************************)
EXTENDS Integers, Sequences, FiniteSets, TLC

VARIABLES
    hand,        \* the four cards the caller holds (never written by the program)
    nums,        \* the list object passed to check_expression as nums
    expression,  \* the string passed to check_expression, as its characters
    result,      \* the outcome of the call: a returned (ok, msg) or an exception
    pc,          \* where the caller stands: "call", "done" around check_expression;
                 \* "solve", "search", "returned", "checked" around solve24
    stack,       \* solve24's work list: a list of states, each a list of [value, text]
    solution,    \* what solve24 returned: a text, or None
    room,        \* the fields of one Room object of app/versus.py
    conns,       \* the coroutines around the room: connections, pending tasks
    sent         \* what the room has sent: the last attemptResult, the broadcasts

vars == <<hand, nums, expression, result, pc, stack, solution, room, conns, sent>>

----------------------------------------------------------------------------
(* Python values                                                           *)

DigitSeq == <<"0", "1", "2", "3", "4", "5", "6", "7", "8", "9">>

Digits == {DigitSeq[j] : j \in 1..10}

\* str.isdigit() on one character of the modelled alphabet
IsDigit(c) == c \in Digits

DigitVal(c) == (CHOOSE j \in 1..10 : DigitSeq[j] = c) - 1

Abs(x) == IF x < 0 THEN -x ELSE x

RECURSIVE GCD(_, _)
GCD(a, b) == IF b = 0 THEN a ELSE GCD(b, a % b)

PyStr(chars) == [k |-> "str", s |-> chars, n |-> 0, d |-> 1]

PyIntVal(x) == [k |-> "int", s |-> <<>>, n |-> x, d |-> 1]

\* a float holding the fraction a/b (b # 0), in lowest terms
PyFloat(a, b) ==
    LET sa == IF b < 0 THEN -a ELSE a
        sb == Abs(b)
        g  == GCD(Abs(sa), sb)
    IN  [k |-> "float", s |-> <<>>, n |-> sa \div g, d |-> sb \div g]

IsNumber(v) == v.k \in {"int", "float"}

\* the numeric result type of + - * : int only when both operands are int
Arith(x, y, a, b) ==
    IF x.k = "int" /\ y.k = "int" THEN PyIntVal(a \div b) ELSE PyFloat(a, b)

NumLE(x, y) == x.n * y.d <= y.n * x.d

\* int(): of a str, of an int, of a float (truncation towards zero)
RECURSIVE DigitsValue(_)
DigitsValue(chars) ==
    IF chars = <<>> THEN 0
    ELSE 10 * DigitsValue(SubSeq(chars, 1, Len(chars) - 1))
         + DigitVal(chars[Len(chars)])

IntLiteralOK(chars) ==
    LET body == IF chars # <<>> /\ chars[1] \in {"+", "-"} THEN Tail(chars) ELSE chars
    IN  body # <<>> /\ \A j \in 1..Len(body) : IsDigit(body[j])

IntOfStr(chars) ==
    IF chars[1] = "-" THEN -DigitsValue(Tail(chars))
    ELSE IF chars[1] = "+" THEN DigitsValue(Tail(chars))
    ELSE DigitsValue(chars)

Trunc(v) == IF v.n >= 0 THEN v.n \div v.d ELSE -((-v.n) \div v.d)

\* [exc, v]: exc = "" when int(v) succeeds
PyInt(v) ==
    IF v.k = "str"
    THEN IF IntLiteralOK(v.s) THEN [exc |-> "", v |-> PyIntVal(IntOfStr(v.s))]
                              ELSE [exc |-> "ValueError", v |-> v]
    ELSE [exc |-> "", v |-> PyIntVal(Trunc(v))]

\* str(n) of an int
RECURSIVE Str(_)
Str(x) ==
    IF x < 0 THEN <<"-">> \o Str(-x)
    ELSE IF x < 10 THEN <<DigitSeq[x + 1]>>
    ELSE Str(x \div 10) \o <<DigitSeq[(x % 10) + 1]>>

RECURSIVE Repeat(_, _)
Repeat(chars, x) == IF x <= 0 THEN <<>> ELSE chars \o Repeat(chars, x - 1)

Ok(v) == [exc |-> "", v |-> v]

Fault(e) == [exc |-> e, v |-> PyIntVal(0)]

\* x + y
PyAdd(x, y) ==
    IF IsNumber(x) /\ IsNumber(y)
    THEN Ok(Arith(x, y, x.n * y.d + y.n * x.d, x.d * y.d))
    ELSE IF x.k = "str" /\ y.k = "str" THEN Ok(PyStr(x.s \o y.s))
    ELSE Fault("TypeError")

\* x - y
PySub(x, y) ==
    IF IsNumber(x) /\ IsNumber(y)
    THEN Ok(Arith(x, y, x.n * y.d - y.n * x.d, x.d * y.d))
    ELSE Fault("TypeError")

\* x * y  (str * int repeats the string)
PyMul(x, y) ==
    IF IsNumber(x) /\ IsNumber(y)
    THEN Ok(Arith(x, y, x.n * y.n, x.d * y.d))
    ELSE IF x.k = "str" /\ y.k = "int" THEN Ok(PyStr(Repeat(x.s, y.n)))
    ELSE IF x.k = "int" /\ y.k = "str" THEN Ok(PyStr(Repeat(y.s, x.n)))
    ELSE Fault("TypeError")

\* x / y  (true division: the result is a float)
PyDiv(x, y) ==
    IF IsNumber(x) /\ IsNumber(y)
    THEN IF y.n = 0 THEN Fault("ZeroDivisionError")
         ELSE Ok(PyFloat(x.n * y.d, x.d * y.n))
    ELSE Fault("TypeError")

----------------------------------------------------------------------------
(* Python lists                                                            *)

\* the position a Python index k names in a list of length len (0-based),
\* valid when it lies in 0..len-1
PyIndex(len, k) == IF k < 0 THEN k + len ELSE k

IndexOK(len, k) == PyIndex(len, k) >= 0 /\ PyIndex(len, k) < len

\* list[k]
At(q, k) == q[PyIndex(Len(q), k) + 1]

\* the list after list.pop(k)
Without(q, k) ==
    LET j == PyIndex(Len(q), k)
    IN  SubSeq(q, 1, j) \o SubSeq(q, j + 2, Len(q))

\* the list after list.insert(k, v): the index is clamped to 0..len
Insert(q, k, v) ==
    LET j0 == PyIndex(Len(q), k)
        j  == IF j0 < 0 THEN 0 ELSE IF j0 > Len(q) THEN Len(q) ELSE j0
    IN  SubSeq(q, 1, j) \o <<v>> \o SubSeq(q, j + 1, Len(q))

\* list[k] = v
Store(q, k, v) == [q EXCEPT ![PyIndex(Len(q), k) + 1] = v]

Contains(q, v) == \E j \in 1..Len(q) : q[j] = v

\* the list after list.remove(v), v in the list: the first occurrence goes
RemoveFirst(q, v) ==
    LET j == CHOOSE m \in 1..Len(q) : q[m] = v /\ \A l \in 1..(m - 1) : q[l] # v
    IN  SubSeq(q, 1, j - 1) \o SubSeq(q, j + 1, Len(q))

Reverse(q) == [j \in 1..Len(q) |-> q[Len(q) + 1 - j]]

----------------------------------------------------------------------------
(* app/checker.py: check_expression                                        *)

Operators == {"+", "-", "*", "/"}

\* a mutant of operations: the two precedence levels exchanged
operations_exchanged(c) == IF c \in {"+", "-"} THEN 1 ELSE 2

\* the dict operations = {"+" : 2, "-" : 2, "*" : 1, "/" : 1}
operations(c) == IF c \in {"+", "-"} THEN 2 ELSE 1

Returned(ok, msg) == [kind |-> "return", ok |-> ok, msg |-> msg]

Raised(exc) == [kind |-> "raise", ok |-> FALSE, msg |-> exc]

\* while the stack top is an operator of precedence <= that of c: move it
\* to the output queue
RECURSIVE PopOperators(_, _, _)
PopOperators(out, ops, c) ==
    IF /\ Len(ops) > 0
       /\ ops[Len(ops)] \in Operators
       /\ operations(ops[Len(ops)]) <= operations(c)
    THEN PopOperators(Append(out, <<ops[Len(ops)]>>), SubSeq(ops, 1, Len(ops) - 1), c)
    ELSE [out |-> out, ops |-> ops]

\* while the stack top is not "(": move it to the output queue
RECURSIVE PopToParen(_, _)
PopToParen(out, ops) ==
    IF Len(ops) > 0 /\ ops[Len(ops)] # "("
    THEN PopToParen(Append(out, <<ops[Len(ops)]>>), SubSeq(ops, 1, Len(ops) - 1))
    ELSE [out |-> out, ops |-> ops]

\* a mutant of ScanChar: a character of no branch, a space included, is put
\* on the output queue
ScanChar_else_queued(st, c) ==
    IF IsDigit(c)
    THEN IF st.was_num
         THEN [st EXCEPT !.out[Len(st.out)] = @ \o <<c>>]
         ELSE [st EXCEPT !.out = Append(@, <<c>>), !.was_num = TRUE]
    ELSE IF c \in Operators
    THEN LET p == PopOperators(st.out, st.ops, c)
         IN  [st EXCEPT !.was_num = FALSE, !.out = p.out, !.ops = Append(p.ops, c)]
    ELSE IF c = "("
    THEN [st EXCEPT !.was_num = FALSE, !.ops = Append(@, c)]
    ELSE IF c = ")"
    THEN LET p == PopToParen(st.out, st.ops)
         IN  IF Len(p.ops) = 0
             THEN [st EXCEPT !.was_num = FALSE, !.out = p.out, !.ops = p.ops,
                             !.ret = "Brackets mismatched"]
             ELSE [st EXCEPT !.was_num = FALSE, !.out = p.out,
                             !.ops = SubSeq(p.ops, 1, Len(p.ops) - 1)]
    ELSE [st EXCEPT !.was_num = FALSE, !.out = Append(@, <<c>>)]

\* one iteration of "for i in expression" on character c; st.ret # "" once
\* the function has returned.  A character that is neither a digit, an
\* operator nor a parenthesis matches no branch and changes nothing.
ScanChar(st, c) ==
    IF IsDigit(c)
    THEN IF st.was_num
         THEN [st EXCEPT !.out[Len(st.out)] = @ \o <<c>>]
         ELSE [st EXCEPT !.out = Append(@, <<c>>), !.was_num = TRUE]
    ELSE IF c \in Operators
    THEN LET p == PopOperators(st.out, st.ops, c)
         IN  [st EXCEPT !.was_num = FALSE, !.out = p.out, !.ops = Append(p.ops, c)]
    ELSE IF c = "("
    THEN [st EXCEPT !.was_num = FALSE, !.ops = Append(@, c)]
    ELSE IF c = ")"
    THEN LET p == PopToParen(st.out, st.ops)
         IN  IF Len(p.ops) = 0
             THEN [st EXCEPT !.was_num = FALSE, !.out = p.out, !.ops = p.ops,
                             !.ret = "Brackets mismatched"]
             ELSE [st EXCEPT !.was_num = FALSE, !.out = p.out,
                             !.ops = SubSeq(p.ops, 1, Len(p.ops) - 1)]
    ELSE st

RECURSIVE Scan(_, _, _)
Scan(expr, j, st) ==
    IF j > Len(expr) \/ st.ret # "" THEN st
    ELSE Scan(expr, j + 1, ScanChar(st, expr[j]))

\* the shunting yard: the scan, then output_queue.extend(operator_stack[::-1]).
\* The output queue is a list of Python strings.
ShuntingYard(expr) ==
    LET st == Scan(expr, 1, [out |-> <<>>, ops |-> <<>>, was_num |-> FALSE, ret |-> ""])
        rest == Reverse(st.ops)
    IN  [ret |-> st.ret,
         out |-> [j \in 1..(Len(st.out) + Len(rest)) |->
                    IF j <= Len(st.out) THEN PyStr(st.out[j])
                    ELSE PyStr(<<rest[j - Len(st.out)]>>)]]

IsOperatorToken(v) == v.k = "str" /\ Len(v.s) = 1 /\ v.s[1] \in Operators

BinOp(c, x, y) ==
    IF c = "+" THEN PyAdd(x, y)
    ELSE IF c = "-" THEN PySub(x, y)
    ELSE IF c = "*" THEN PyMul(x, y)
    ELSE PyDiv(x, y)

\* the operator branch of the evaluation loop at index i:
\*   output_queue.insert(i - 2, output_queue.pop(i - 2) OP output_queue.pop(i - 2)); i -= 2
\* after match output_queue.pop(i).  [exc, q, i]
ApplyOperator(q, i) ==
    LET c  == At(q, i).s[1]
        q1 == Without(q, i)
    IN  IF ~IndexOK(Len(q1), i - 2) THEN [exc |-> "IndexError", q |-> q1, i |-> i]
        ELSE LET x  == At(q1, i - 2)
                 q2 == Without(q1, i - 2)
             IN  IF ~IndexOK(Len(q2), i - 2) THEN [exc |-> "IndexError", q |-> q2, i |-> i]
                 ELSE LET y  == At(q2, i - 2)
                          q3 == Without(q2, i - 2)
                          r  == BinOp(c, x, y)
                      IN  IF r.exc # "" THEN [exc |-> r.exc, q |-> q3, i |-> i]
                          ELSE [exc |-> "", q |-> Insert(q3, i - 2, r.v), i |-> i - 2]

\* a mutant of VisitOperand: a literal that matches no remaining card is let through
VisitOperand_unmatched_kept(q, i, cards) ==
    LET c == PyInt(At(q, i))
    IN  IF c.exc # "" THEN [exc |-> c.exc, ret |-> "", q |-> q, nums |-> cards]
        ELSE [exc |-> "", ret |-> "", q |-> Store(q, i, c.v),
              nums |-> IF Contains(cards, c.v.n) THEN RemoveFirst(cards, c.v.n) ELSE cards]

\* the else branch of the evaluation loop at index i:
\*   output_queue[i] = int(output_queue[i]); the card is removed from nums,
\*   or the function returns "Numbers mismatched".  [exc, ret, q, nums]
VisitOperand(q, i, cards) ==
    LET c == PyInt(At(q, i))
    IN  IF c.exc # "" THEN [exc |-> c.exc, ret |-> "", q |-> q, nums |-> cards]
        ELSE IF Contains(cards, c.v.n)
        THEN [exc |-> "", ret |-> "", q |-> Store(q, i, c.v),
              nums |-> RemoveFirst(cards, c.v.n)]
        ELSE [exc |-> "", ret |-> "Numbers mismatched", q |-> Store(q, i, c.v),
              nums |-> cards]

\* while i < len(output_queue): ... i += 1.  [res, q, nums] with res the
\* outcome when the loop is left by a return or an exception, and
\* res.kind = "none" when it runs to its end.
RECURSIVE Evaluate(_, _, _)
Evaluate(q, i, cards) ==
    IF ~(i < Len(q)) THEN [res |-> [kind |-> "none", ok |-> FALSE, msg |-> ""],
                           q |-> q, nums |-> cards]
    ELSE IF ~IndexOK(Len(q), i) THEN [res |-> Raised("IndexError"), q |-> q, nums |-> cards]
    ELSE IF IsOperatorToken(At(q, i))
    THEN LET a == ApplyOperator(q, i)
         IN  IF a.exc # "" THEN [res |-> Raised(a.exc), q |-> a.q, nums |-> cards]
             ELSE Evaluate(a.q, a.i + 1, cards)
    ELSE LET v == VisitOperand(q, i, cards)
         IN  IF v.exc # "" THEN [res |-> Raised(v.exc), q |-> v.q, nums |-> v.nums]
             ELSE IF v.ret # "" THEN [res |-> Returned(FALSE, v.ret), q |-> v.q, nums |-> v.nums]
             ELSE Evaluate(v.q, i + 1, v.nums)

\* 24.1 >= x >= 23.9
InTolerance(x) == NumLE(x, PyFloat(241, 10)) /\ NumLE(PyFloat(239, 10), x)

\* a mutant of Verdict: the unused-card test is left out
Verdict_unused_ignored(q, cards) ==
    IF Len(q) = 0 THEN Raised("IndexError")
    ELSE IF ~IsNumber(q[1]) THEN Raised("TypeError")
    ELSE IF InTolerance(q[1]) THEN Returned(TRUE, "Correct!")
    ELSE Returned(FALSE, "Result not 24")

\* the end of check_expression: print(output_queue[0]), the unused-card
\* test and the comparison with 24
Verdict(q, cards) ==
    IF Len(q) = 0 THEN Raised("IndexError")
    ELSE IF Len(cards) > 0 THEN Returned(FALSE, "Didn't use all the cards")
    ELSE IF ~IsNumber(q[1]) THEN Raised("TypeError")
    ELSE IF InTolerance(q[1]) THEN Returned(TRUE, "Correct!")
    ELSE Returned(FALSE, "Result not 24")

\* check_expression(nums, expression): its outcome and the list nums as the
\* call leaves it
check_expression(cards, expr) ==
    LET sy == ShuntingYard(expr)
    IN  IF sy.ret # "" THEN [res |-> Returned(FALSE, sy.ret), nums |-> cards]
        ELSE LET ev == Evaluate(sy.out, 0, cards)
             IN  IF ev.res.kind # "none" THEN [res |-> ev.res, nums |-> ev.nums]
                 ELSE [res |-> Verdict(ev.q, ev.nums), nums |-> ev.nums]


----------------------------------------------------------------------------
(* The inputs of check_expression                                          *)

\* the longest string of the exhaustive family RawStrings
MaxRaw == 4

RawAlphabet == {"1", "2", "+", "*", "/", "(", ")", " ", "a"}

RawHand == <<1, 1, 2, 12>>

\* every string over RawAlphabet of at most MaxRaw characters
RawStrings == UNION {[1..n -> RawAlphabet] : n \in 0..MaxRaw}

Hands == {<<1, 3, 4, 6>>, <<3, 8, 1, 10>>, <<12, 2, 1, 0>>, <<4, 6, 1, 1>>, <<2, 2, 2, 2>>}

\* the sequences of k cards drawn from the hand h without reuse
Orderings(h, k) ==
    {[j \in 1..k |-> h[f[j]]] :
        f \in {g \in [1..k -> 1..Len(h)] : \A a, b \in 1..k : a # b => g[a] # g[b]}}

Paren(chars) == <<"(">> \o chars \o <<")">>

\* L c R with only the parentheses that precedence and left associativity need;
\* p is 0 for a literal, 1 for a product or quotient, 2 for a sum or difference
JoinInfix(L, c, R) ==
    LET p == IF c \in {"+", "-"} THEN 2 ELSE 1
    IN  [s |-> (IF L.p > p THEN Paren(L.s) ELSE L.s) \o <<c>>
               \o (IF R.p >= p THEN Paren(R.s) ELSE R.s),
         p |-> p]

\* the infix expressions over the leaves in this order, one per binary tree
\* and operator assignment, written without spaces
RECURSIVE Infix(_)
Infix(leaves) ==
    IF Len(leaves) = 1 THEN {[s |-> Str(leaves[1]), p |-> 0]}
    ELSE UNION {LET Ls == Infix(SubSeq(leaves, 1, j))
                    Rs == Infix(SubSeq(leaves, j + 1, Len(leaves)))
                IN  {JoinInfix(L, c, R) : L \in Ls, R \in Rs, c \in Operators} :
                j \in 1..(Len(leaves) - 1)}

\* the same trees fully parenthesised, with a space on each side of an operator
RECURSIVE Spaced(_)
Spaced(leaves) ==
    IF Len(leaves) = 1 THEN {Str(leaves[1])}
    ELSE UNION {LET Ls == Spaced(SubSeq(leaves, 1, j))
                    Rs == Spaced(SubSeq(leaves, j + 1, Len(leaves)))
                IN  {Paren(L \o <<" ", c, " ">> \o R) : L \in Ls, R \in Rs, c \in Operators} :
                j \in 1..(Len(leaves) - 1)}

\* well-formed expressions over all or some of the cards of h
TreeStrings(h) ==
    UNION {{e.s : e \in Infix(o)} : o \in UNION {Orderings(h, k) : k \in 1..Len(h)}}
    \cup UNION {Spaced(o) : o \in Orderings(h, Len(h))}

\* expressions named in the documentation, with the hands they go with
Examples ==
    { <<<<1, 3, 4, 6>>, <<"(", "6", "/", "(", "1", "-", "3", "/", "4", ")", ")">>>>,
      <<<<1, 3, 4, 6>>, <<"6", "/", "(", "1", "-", "3", "/", "4", ")">>>>,
      <<<<2, 2, 2, 2>>, <<"(", "2", "+", "2", "+", "2", ")", " ", "*", " ", "2">>>>,
      <<<<1, 1, 1, 1>>, <<"1", "+", "1", "+", "1", "+", "1">>>>,
      <<<<5, 4, 13, 9>>, <<"5", " ", "*", " ", "4", " ", "+", " ", "1", "3", " ", "-", " ", "9">>>>,
      <<<<12, 2, 1, 0>>, <<"1", "2", "*", "2", "+", "0", "*", "1">>>>,
      <<<<4, 6, 1, 1>>, <<"(", "4", "*", "6", ")", "(", "1", ")", "(", "1", ")">>>>,
      <<<<4, 6, 1, 1>>, <<"4", "*", "6", "/", "(", "1", "-", "1", ")">>>>,
      <<<<1, 2, 3, 4>>, <<"1", "2", "+", "3", "*", "4">>>> }

EditAlphabet == {"1", "2", "+", "-", "*", "/", "(", ")", " ", "a", ","}

\* the strings one character away from e: one inserted, or one deleted
Edits(e) ==
    {SubSeq(e, 1, j) \o <<c>> \o SubSeq(e, j + 1, Len(e)) : j \in 0..Len(e), c \in EditAlphabet}
    \cup {SubSeq(e, 1, j - 1) \o SubSeq(e, j + 1, Len(e)) : j \in 1..Len(e)}

----------------------------------------------------------------------------
(* app/versus.py: the Room object and what surrounds it                    *)

\* a Room as the dataclass builds it: no client, no card, no round.  Player
\* ids stand for the uuid of each connection; round_id counts the rounds,
\* each count standing for a fresh uuid ("" is 0).  The two dictionaries
\* names and scores are a set of keys and a function on its keys.  The
\* co-op clock coop_round_started_at_ms is left out.
Room(mode) ==
    [mode |-> mode, clients |-> {}, names |-> {}, scores |-> <<>>, nums |-> <<>>,
     round_active |-> FALSE, round_id |-> 0, coop_correct |-> 0]

\* joined: the ids that have connected; handlers: the ws_room coroutines in
\* their receive loop; leaving: those on their way to the finally block;
\* broken: the sockets on which send_text raises; tasks: the next_round_soon
\* tasks created and not yet run; listed: the room is in ROOMS
NoConns ==
    [joined |-> {}, handlers |-> {}, leaving |-> {}, broken |-> {}, tasks |-> 0,
     listed |-> TRUE]

\* reply: the last attemptResult and the socket it was written to; solved,
\* puzzle: the "solved" and "puzzle" broadcasts of send_to_room, in order
NoSent == [reply |-> [to |-> 0, ok |-> FALSE, message |-> ""], solved |-> <<>>, puzzle |-> <<>>]

----------------------------------------------------------------------------
(* The caller of check_expression                                          *)

NoResult == [kind |-> "none", ok |-> FALSE, msg |-> ""]

\* Python's None, where a text is expected
None == <<"None">>

Init ==
    /\ \/ \E x \in Examples : hand = x[1] /\ expression \in {x[2]} \cup Edits(x[2])
       \/ \E h \in Hands : hand = h /\ expression \in TreeStrings(h)
       \/ hand = RawHand /\ expression \in RawStrings
    /\ nums = hand
    /\ result = NoResult
    /\ pc = "call"
    /\ stack = <<>>
    /\ solution = None
    /\ room = Room("versus")
    /\ conns = NoConns
    /\ sent = NoSent

\* ok, msg = check_expression(nums, expression)
Check ==
    /\ pc = "call"
    /\ LET r == check_expression(nums, expression)
       IN  result' = r.res /\ nums' = r.nums
    /\ pc' = "done"
    /\ UNCHANGED <<hand, expression, stack, solution, room, conns, sent>>

Next == Check

Spec == Init /\ [][Next]_vars

\* the same calls, as the specification under which each call is compared
\* with the calls on the spaced variants of its expression
SpacedSpec == Init /\ [][Next]_vars

----------------------------------------------------------------------------
(* app/solver.py: gather, solve24                                          *)

\* [i, str(i)] for a card i
Leaf(x) == [v |-> PyIntVal(x), t |-> Str(x)]

\* a mutant of Text: the combined text is not parenthesised
Text_bare(a, c, b) == a \o <<" ", c, " ">> \o b

\* f"({a} c {b})"
Text(a, c, b) == <<"(">> \o a \o <<" ", c, " ">> \o b \o <<")">>

\* if x: for a number x
Truthy(x) == x.n # 0

\* a mutant of possible_vals: every operator is applied as card1 c card2 only
possible_vals_one_way(card1, card2) ==
    << [v |-> PyAdd(card1.v, card2.v).v, t |-> Text(card1.t, "+", card2.t)],
       [v |-> PySub(card1.v, card2.v).v, t |-> Text(card1.t, "-", card2.t)],
       [v |-> PyMul(card1.v, card2.v).v, t |-> Text(card1.t, "*", card2.t)] >>
    \o (IF Truthy(card2.v)
        THEN <<[v |-> PyDiv(card1.v, card2.v).v, t |-> Text(card1.t, "/", card2.t)]>>
        ELSE <<>>)

\* a mutant of possible_vals: the two quotients are listed whatever the divisor
possible_vals_unguarded(card1, card2) ==
    << [v |-> PyAdd(card1.v, card2.v).v, t |-> Text(card1.t, "+", card2.t)],
       [v |-> PySub(card1.v, card2.v).v, t |-> Text(card1.t, "-", card2.t)],
       [v |-> PySub(card2.v, card1.v).v, t |-> Text(card2.t, "-", card1.t)],
       [v |-> PyMul(card1.v, card2.v).v, t |-> Text(card1.t, "*", card2.t)],
       [v |-> PyDiv(card1.v, card2.v).v, t |-> Text(card1.t, "/", card2.t)],
       [v |-> PyDiv(card2.v, card1.v).v, t |-> Text(card2.t, "/", card1.t)] >>

\* the list possible_vals for the pair card1, card2
possible_vals(card1, card2) ==
    << [v |-> PyAdd(card1.v, card2.v).v, t |-> Text(card1.t, "+", card2.t)],
       [v |-> PySub(card1.v, card2.v).v, t |-> Text(card1.t, "-", card2.t)],
       [v |-> PySub(card2.v, card1.v).v, t |-> Text(card2.t, "-", card1.t)],
       [v |-> PyMul(card1.v, card2.v).v, t |-> Text(card1.t, "*", card2.t)] >>
    \o (IF Truthy(card2.v)
        THEN <<[v |-> PyDiv(card1.v, card2.v).v, t |-> Text(card1.t, "/", card2.t)]>>
        ELSE <<>>)
    \o (IF Truthy(card1.v)
        THEN <<[v |-> PyDiv(card2.v, card1.v).v, t |-> Text(card2.t, "/", card1.t)]>>
        ELSE <<>>)

\* the index pairs (first_num, second_num) of the two loops, in loop order
RECURSIVE IndexPairs(_, _, _)
IndexPairs(first, second, len) ==
    IF first >= len THEN <<>>
    ELSE IF second >= len THEN IndexPairs(first + 1, first + 2, len)
    ELSE <<<<first, second>>>> \o IndexPairs(first, second + 1, len)

\* a mutant of Combined: card2 is not removed from remaining
Combined_second_kept(state, first, second) ==
    LET card1 == state[first + 1]
        card2 == state[second + 1]
        remaining == RemoveFirst(state, card1)
        vals == possible_vals(card1, card2)
    IN  [j \in 1..Len(vals) |-> <<vals[j]>> \o remaining]

\* the states appended to out for one pair: [i] + remaining for i in possible_vals
Combined(state, first, second) ==
    LET card1 == state[first + 1]
        card2 == state[second + 1]
        remaining == RemoveFirst(RemoveFirst(state, card1), card2)
        vals == possible_vals(card1, card2)
    IN  [j \in 1..Len(vals) |-> <<vals[j]>> \o remaining]

RECURSIVE GatherFrom(_, _, _)
GatherFrom(state, pairs, j) ==
    IF j > Len(pairs) THEN <<>>
    ELSE Combined(state, pairs[j][1], pairs[j][2]) \o GatherFrom(state, pairs, j + 1)

\* gather(nums): every state one combination away from the state nums
gather(state) == GatherFrom(state, IndexPairs(0, 1, Len(state)), 1)

\* 23.9999 <= x <= 24.0001, that is |x - 24| <= 1/10000, for x = n/d with
\* d > 0: |n - 24 d| <= d / 10000, in integers |n - 24 d| <= d \div 10000
NearTarget(x) == Abs(x.n - 24 * x.d) <= x.d \div 10000

\* nums = [[i, str(i)] for i in nums]; stack = gather(nums)
SolveStart ==
    /\ pc = "solve"
    /\ stack' = gather([j \in 1..Len(hand) |-> Leaf(hand[j])])
    /\ pc' = "search"
    /\ UNCHANGED <<hand, nums, expression, result, solution, room, conns, sent>>

\* the loop body when the top state has one element: it is popped, and
\* returned when its value is within 0.0001 of 24
SolveTest ==
    /\ pc = "search"
    /\ Len(stack) # 0
    /\ Len(stack[Len(stack)]) = 1
    /\ stack' = SubSeq(stack, 1, Len(stack) - 1)
    /\ IF NearTarget(stack[Len(stack)][1].v)
       THEN solution' = stack[Len(stack)][1].t /\ pc' = "returned"
       ELSE UNCHANGED <<solution, pc>>
    /\ UNCHANGED <<hand, nums, expression, result, room, conns, sent>>

\* a mutant of SolveExpand: the expanded state is left on the work list
SolveExpand_unpopped ==
    /\ pc = "search"
    /\ Len(stack) # 0
    /\ Len(stack[Len(stack)]) # 1
    /\ stack' = stack \o gather(stack[Len(stack)])
    /\ UNCHANGED <<hand, nums, expression, result, solution, pc, room, conns, sent>>

\* the loop body otherwise: stack.extend(gather(stack.pop()))
SolveExpand ==
    /\ pc = "search"
    /\ Len(stack) # 0
    /\ Len(stack[Len(stack)]) # 1
    /\ stack' = SubSeq(stack, 1, Len(stack) - 1) \o gather(stack[Len(stack)])
    /\ UNCHANGED <<hand, nums, expression, result, solution, pc, room, conns, sent>>

\* the work list is empty: return None
SolveNone ==
    /\ pc = "search"
    /\ Len(stack) = 0
    /\ solution' = None
    /\ pc' = "returned"
    /\ UNCHANGED <<hand, nums, expression, result, stack, room, conns, sent>>

\* the caller hands the returned expression and a copy of the hand to
\* check_expression
CheckSolution ==
    /\ pc = "returned"
    /\ solution # None
    /\ expression' = solution
    /\ LET r == check_expression(hand, solution)
       IN  result' = r.res /\ nums' = r.nums
    /\ pc' = "checked"
    /\ UNCHANGED <<hand, stack, solution, room, conns, sent>>

\* the hands solve24 is called with: every hand of cards 0..MaxCard in
\* non-decreasing order, and hands with larger, with negative and with
\* three-digit cards
MaxCard == 4

SmallHands ==
    {h \in [1..4 -> 0..MaxCard] : \A j \in 1..3 : h[j] <= h[j + 1]}

SolverHands ==
    SmallHands \cup
    {<<4, 7, 8, 8>>, <<1, 1, 1, 1>>, <<1, 3, 4, 6>>, <<12, 11, 1, 6>>, <<3, 3, 8, 8>>,
     <<0, 4, 6, 10>>, <<2, 2, 2, 2>>, <<13, 13, 13, 13>>, <<-1, 5, 5, 1>>,
     <<6, 1, 3, 4>>, <<1, 5, 5, 5>>, <<24, 1, 100, 103>>, <<24, 7, 100, 103>>}

SolveInit ==
    /\ hand \in SolverHands
    /\ nums = hand
    /\ expression = <<>>
    /\ result = NoResult
    /\ pc = "solve"
    /\ stack = <<>>
    /\ solution = None
    /\ room = Room("versus")
    /\ conns = NoConns
    /\ sent = NoSent

SolveNext == SolveStart \/ SolveTest \/ SolveExpand \/ SolveNone \/ CheckSolution

SolveSpec == SolveInit /\ [][SolveNext]_vars

\* solve24 is sequential code that waits for nothing: a call that can take
\* its next step takes it
FairHands ==
    {<<1, 1, 1, 1>>, <<0, 0, 0, 0>>, <<3, 3, 8, 8>>, <<-1, 5, 5, 1>>,
     <<13, 13, 13, 13>>, <<1, 3, 4, 6>>}

SolveFairInit == SolveInit /\ hand \in FairHands

SolveFair ==
    /\ SolveFairInit
    /\ [][SolveNext]_vars
    /\ WF_vars(SolveStart \/ SolveTest \/ SolveExpand \/ SolveNone)

----------------------------------------------------------------------------
(* app/generator.py: generate_puzzle                                       *)

\* the values random.randint(a, b) can return
randint(a, b) == a..b

\* the cards drawn in the model: those up to MaxDraw, and the largest one
MaxDraw == 2

Draws == {c \in randint(1, 13) : c <= MaxDraw \/ c = 13}

\* [random.randint(1, 13) for _ in range(4)]
DrawnHands == [1..4 -> Draws]

\* cards = [random.randint(1, 13) for _ in range(4)], before the loop
GenDraw ==
    /\ pc = "draw"
    /\ hand' \in DrawnHands
    /\ pc' = "solve"
    /\ UNCHANGED <<nums, expression, result, stack, solution, room, conns, sent>>

\* solver.solve24(cards) == None: the loop body draws again
GenRedraw ==
    /\ pc = "returned"
    /\ solution = None
    /\ hand' \in DrawnHands
    /\ pc' = "solve"
    /\ UNCHANGED <<nums, expression, result, stack, solution, room, conns, sent>>

\* a mutant of GenReturn: the cards are returned whatever solve24 answered
GenReturn_unsolved ==
    /\ pc = "returned"
    /\ pc' = "generated"
    /\ UNCHANGED <<hand, nums, expression, result, stack, solution, room, conns, sent>>

\* solver.solve24(cards) is not None: the loop ends, return cards
GenReturn ==
    /\ pc = "returned"
    /\ solution # None
    /\ pc' = "generated"
    /\ UNCHANGED <<hand, nums, expression, result, stack, solution, room, conns, sent>>

GenInit ==
    /\ hand = <<>>
    /\ nums = <<>>
    /\ expression = <<>>
    /\ result = NoResult
    /\ pc = "draw"
    /\ stack = <<>>
    /\ solution = None
    /\ room = Room("versus")
    /\ conns = NoConns
    /\ sent = NoSent

GenNext ==
    \/ GenDraw \/ SolveStart \/ SolveTest \/ SolveExpand \/ SolveNone
    \/ GenRedraw \/ GenReturn

GenSpec == GenInit /\ [][GenNext]_vars

----------------------------------------------------------------------------
(* app/versus.py: send_to_room, start_round, next_round_soon, ws_room.     *)
(* Every block under "async with r.lock" is one step: asyncio.Lock lets    *)
(* the blocks of different coroutines run in any order, one at a time.     *)

\* the connections the room sees in the model, and the rounds it starts
MaxPlayers == 2

MaxRounds == 3

Players == 1..MaxPlayers

\* the hands generate_puzzle() returns to the room in the model
RoomHands == {<<1, 3, 4, 6>>, <<3, 8, 1, 10>>}

\* the expressions the players send
AttemptStrings ==
    { <<"6", "/", "(", "1", "-", "3", "/", "4", ")">>,
      <<"3", "*", "8", "+", "1", "/", "1", "0">>,
      <<"1", "+", "3", "+", "4", "+", "6">>,
      <<"4", "*", "6">>,
      <<"6", "+">>,
      <<>> }

\* d.pop(pid, None) on the dictionary d, for every pid of gone
PopKeys(d, gone) == [pid \in DOMAIN d \ gone |-> d[pid]]

\* d[pid] = v
SetKey(d, pid, v) == [q \in DOMAIN d \cup {pid} |-> IF q = pid THEN v ELSE d[q]]

\* d.get(pid, 0)
GetKey(d, pid) == IF pid \in DOMAIN d THEN d[pid] ELSE 0

\* send_to_room(room, payload): the clients whose send_text raises leave
\* clients, names and scores
send_to_room(r, broken) ==
    [r EXCEPT !.clients = @ \ broken,
              !.names = @ \ (r.clients \cap broken),
              !.scores = PopKeys(@, r.clients \cap broken)]

\* start_round(room), generate_puzzle() having returned cards: the two
\* broadcasts drop the same broken clients
start_round(r, cards, broken) ==
    send_to_room([r EXCEPT !.nums = cards, !.round_active = TRUE, !.round_id = @ + 1],
                 broken)

\* the "puzzle" broadcast of start_round
PuzzleMessage(r) == [roundId |-> r.round_id, nums |-> r.nums]

\* a mutant of nums_after_check: check_expression is handed r.nums itself
nums_after_check_aliased(room_nums, copy_after) == copy_after

\* r.nums after check_expression(nums_copy, expr), where nums_copy =
\* list(r.nums) is a list of its own: whatever the call removed from the
\* copy, r.nums is as before
nums_after_check(room_nums, copy_after) == room_nums

\* a mutant of guarded: no except clause around the call
guarded_not(res) == res

\* try: ok, message = check_expression(...)
\* except Exception: ok, message = False, "Error checking expression."
guarded(res) ==
    IF res.kind = "raise" THEN Returned(FALSE, "Error checking expression.") ELSE res

\* a mutant of accepted: the round is left open
accepted_round_open(r, p) ==
    IF r.mode = "versus"
    THEN [r EXCEPT !.scores = SetKey(@, p, GetKey(@, p) + 1)]
    ELSE [r EXCEPT !.coop_correct = @ + 1]

\* if ok: r.round_active = False, and the point goes to the player (versus)
\* or to the team (coop)
accepted(r, p) ==
    IF r.mode = "versus"
    THEN [r EXCEPT !.round_active = FALSE, !.scores = SetKey(@, p, GetKey(@, p) + 1)]
    ELSE [r EXCEPT !.round_active = FALSE, !.coop_correct = @ + 1]

\* the handshake of ws_room for a new connection p, under the lock
Join(p) ==
    /\ conns.listed
    /\ p \notin conns.joined
    /\ \E r2 \in {send_to_room([room EXCEPT !.clients = @ \cup {p}, !.names = @ \cup {p},
                                               !.scores = SetKey(@, p, GetKey(@, p))],
                                 conns.broken)} :
          IF ~r2.round_active \/ r2.nums = <<>>
          THEN /\ room.round_id < MaxRounds
               /\ \E cards \in RoomHands :
                     /\ room' = start_round(r2, cards, conns.broken)
                     /\ sent' = [sent EXCEPT !.puzzle = Append(@, PuzzleMessage(room'))]
          ELSE room' = r2 /\ sent' = sent
    /\ conns' = [conns EXCEPT !.joined = @ \cup {p}, !.handlers = @ \cup {p}]
    /\ pc' = "join"
    /\ UNCHANGED <<hand, nums, expression, result, stack, solution>>

\* the socket of p stops taking what the server writes to it
Break(p) ==
    /\ p \in conns.handlers \ conns.broken
    /\ conns' = [conns EXCEPT !.broken = @ \cup {p}]
    /\ pc' = "break"
    /\ UNCHANGED <<hand, nums, expression, result, stack, solution, room, sent>>

\* an "attempt" message of p with expression expr, under the lock
Attempt(p, expr) ==
    /\ p \in conns.handlers
    /\ expression' = expr
    /\ pc' = "attempt"
    /\ IF ~room.round_active
       THEN /\ sent' = [sent EXCEPT !.reply =
                          [to |-> p, ok |-> FALSE,
                           message |-> "Round already solved. Wait for the next round."]]
            /\ result' = NoResult
            /\ nums' = <<>>
            /\ UNCHANGED <<room, conns>>
       ELSE \E call \in {check_expression(room.nums, expr)} :
            \E answer \in {guarded(call.res)} :
            LET r0 == [room EXCEPT !.nums = nums_after_check(room.nums, call.nums)]
                r1 == accepted(r0, p)
                reply == [to |-> p, ok |-> answer.ok, message |-> answer.msg]
            IN  /\ result' = call.res
                /\ nums' = call.nums
                /\ IF answer.kind = "raise"
                   \* the exception leaves the loop for the finally block
                   THEN /\ room' = r0
                        /\ sent' = sent
                        /\ conns' = [conns EXCEPT !.handlers = @ \ {p}, !.leaving = @ \cup {p}]
                   ELSE IF ~answer.ok
                   THEN /\ room' = r0
                        /\ sent' = [sent EXCEPT !.reply = reply]
                        /\ conns' = conns
                   ELSE IF p \notin r1.names
                   \* r.names[player_id] raises KeyError: no broadcast, no task
                   THEN /\ room' = r1
                        /\ sent' = [sent EXCEPT !.reply = reply]
                        /\ conns' = [conns EXCEPT !.handlers = @ \ {p}, !.leaving = @ \cup {p}]
                   ELSE /\ room' = send_to_room(r1, conns.broken)
                        /\ sent' = [sent EXCEPT !.reply = reply,
                                      !.solved = Append(@, [roundId |-> r1.round_id,
                                                            nums |-> r1.nums, by |-> p])]
                        /\ conns' = [conns EXCEPT !.tasks = @ + 1]
    /\ UNCHANGED <<hand, stack, solution>>

\* next_round_soon(room) after its sleep, under the lock
NextRound ==
    /\ conns.tasks > 0
    /\ room.round_id < MaxRounds
    /\ \E cards \in RoomHands :
          /\ room' = start_round(room, cards, conns.broken)
          /\ sent' = [sent EXCEPT !.puzzle = Append(@, PuzzleMessage(room'))]
    /\ conns' = [conns EXCEPT !.tasks = @ - 1]
    /\ pc' = "next_round"
    /\ UNCHANGED <<hand, nums, expression, result, stack, solution>>

\* receive_text raises WebSocketDisconnect, or an exception has left the
\* loop: the finally block of ws_room for p, under the lock
Leave(p) ==
    /\ p \in conns.handlers \cup conns.leaving
    /\ room' = send_to_room([room EXCEPT !.clients = @ \ {p}], conns.broken)
    /\ conns' = [conns EXCEPT !.handlers = @ \ {p}, !.leaving = @ \ {p},
                              !.listed = @ /\ room'.clients # {}]
    /\ pc' = "leave"
    /\ UNCHANGED <<hand, nums, expression, result, stack, solution, sent>>

RoomInit ==
    /\ hand = <<>>
    /\ nums = <<>>
    /\ expression = <<>>
    /\ result = NoResult
    /\ pc = "created"
    /\ stack = <<>>
    /\ solution = None
    /\ room \in {Room("versus"), Room("coop")}
    /\ conns = NoConns
    /\ sent = NoSent

RoomNext ==
    \/ \E p \in Players : Join(p)
    \/ \E p \in Players : Break(p)
    \/ \E p \in Players : \E expr \in AttemptStrings : Attempt(p, expr)
    \/ NextRound
    \/ \E p \in Players : Leave(p)

RoomSpec == RoomInit /\ [][RoomNext]_vars

----------------------------------------------------------------------------
(* The reference reading of an expression, against which the claims are    *)
(* stated: tokens are integer literals (maximal runs of digits), the four  *)
(* operators and the two parentheses; spaces separate tokens; the grammar  *)
(* is  E ::= T (("+" | "-") T)*,  T ::= F (("*" | "/") F)*,                *)
(* F ::= literal | "(" E ")",  evaluated left to right in exact fractions. *)

Tok(t, c, v) == [t |-> t, c |-> c, v |-> v]

\* the last index of the run of digits that starts at index j
RunEnd(e, j) ==
    CHOOSE r \in j..Len(e) :
        /\ \A m \in j..r : IsDigit(e[m])
        /\ r = Len(e) \/ ~IsDigit(e[r + 1])

RECURSIVE RefTokens(_, _)
RefTokens(e, j) ==
    IF j > Len(e) THEN <<>>
    ELSE IF IsDigit(e[j])
    THEN <<Tok("num", "", DigitsValue(SubSeq(e, j, RunEnd(e, j))))>> \o RefTokens(e, RunEnd(e, j) + 1)
    ELSE IF e[j] = " " THEN RefTokens(e, j + 1)
    ELSE IF e[j] \in Operators THEN <<Tok("op", e[j], 0)>> \o RefTokens(e, j + 1)
    ELSE IF e[j] \in {"(", ")"} THEN <<Tok(e[j], e[j], 0)>> \o RefTokens(e, j + 1)
    ELSE <<Tok("bad", e[j], 0)>> \o RefTokens(e, j + 1)

\* a parse: ok, the next token index p, the value n/d, and dz when a
\* division by zero was met (the value is then meaningless)
RefFail == [ok |-> FALSE, p |-> 0, n |-> 0, d |-> 1, dz |-> FALSE]

RefApply(c, x, y) ==
    LET dz == x.dz \/ y.dz \/ (c = "/" /\ y.n = 0)
        n  == IF c = "+" THEN x.n * y.d + y.n * x.d
              ELSE IF c = "-" THEN x.n * y.d - y.n * x.d
              ELSE IF c = "*" THEN x.n * y.n
              ELSE x.n * y.d
        d  == IF c = "/" THEN x.d * y.n ELSE x.d * y.d
        f  == IF dz THEN PyFloat(0, 1) ELSE PyFloat(n, d)
    IN  [ok |-> TRUE, p |-> y.p, n |-> f.n, d |-> f.d, dz |-> dz]

RECURSIVE RefE(_, _), RefERest(_, _), RefT(_, _), RefTRest(_, _), RefF(_, _)
RefF(ts, p) ==
    IF p > Len(ts) THEN RefFail
    ELSE IF ts[p].t = "num" THEN [ok |-> TRUE, p |-> p + 1, n |-> ts[p].v, d |-> 1, dz |-> FALSE]
    ELSE IF ts[p].t = "("
    THEN LET x == RefE(ts, p + 1)
         IN  IF x.ok /\ x.p <= Len(ts) /\ ts[x.p].t = ")" THEN [x EXCEPT !.p = x.p + 1]
             ELSE RefFail
    ELSE RefFail

RefTRest(ts, x) ==
    IF x.ok /\ x.p <= Len(ts) /\ ts[x.p].t = "op" /\ ts[x.p].c \in {"*", "/"}
    THEN LET y == RefF(ts, x.p + 1)
         IN  IF y.ok THEN RefTRest(ts, RefApply(ts[x.p].c, x, y)) ELSE RefFail
    ELSE x

RefT(ts, p) == RefTRest(ts, RefF(ts, p))

RefERest(ts, x) ==
    IF x.ok /\ x.p <= Len(ts) /\ ts[x.p].t = "op" /\ ts[x.p].c \in {"+", "-"}
    THEN LET y == RefT(ts, x.p + 1)
         IN  IF y.ok THEN RefERest(ts, RefApply(ts[x.p].c, x, y)) ELSE RefFail
    ELSE x

RefE(ts, p) == RefERest(ts, RefT(ts, p))

\* the reading of the whole string e: ok when e is one well-formed expression
Ref(e) ==
    LET ts == RefTokens(e, 1)
        x  == RefE(ts, 1)
    IN  IF x.ok /\ x.p = Len(ts) + 1 THEN x ELSE RefFail

\* the literals of e, in order
Literals(e) ==
    LET ts == RefTokens(e, 1)
    IN  [j \in 1..Cardinality({m \in 1..Len(ts) : ts[m].t = "num"}) |->
            ts[CHOOSE m \in 1..Len(ts) :
                /\ ts[m].t = "num"
                /\ Cardinality({l \in 1..m : ts[l].t = "num"}) = j].v]

Count(q, v) == Cardinality({j \in 1..Len(q) : q[j] = v})

Values(q) == {q[j] : j \in 1..Len(q)}

\* a is the same multiset as b; a is a sub-multiset of b
SameCards(a, b) == \A v \in Values(a) \cup Values(b) : Count(a, v) = Count(b, v)

SubCards(a, b) == \A v \in Values(a) : Count(a, v) <= Count(b, v)

RECURSIVE Depths(_, _, _)
\* TRUE when no prefix of e closes more parentheses than it opened and e
\* closes all it opened
Depths(e, j, depth) ==
    IF depth < 0 THEN FALSE
    ELSE IF j > Len(e) THEN depth = 0
    ELSE Depths(e, j + 1, IF e[j] = "(" THEN depth + 1 ELSE IF e[j] = ")" THEN depth - 1 ELSE depth)

Balanced(e) == Depths(e, 1, 0)

Allowed == Digits \cup Operators \cup {"(", ")", " "}

HasIllegalCharacter(e) == \E j \in 1..Len(e) : e[j] \notin Allowed

Correct == Returned(TRUE, "Correct!")

----------------------------------------------------------------------------
(* Claims about check_expression                                           *)

Done == pc = "done"

\* the expression is well formed and no division in it has a zero divisor
Evaluable == Ref(expression).ok /\ ~Ref(expression).dz

\* the exact value of the expression lies in [23.9, 24.1]
ExactInTolerance ==
    LET x == Ref(expression)
    IN  239 * x.d <= 10 * x.n /\ 10 * x.n <= 241 * x.d

ExactIs24 == Ref(expression).n = 24 /\ Ref(expression).d = 1

\* messages of the other kinds of the result taxonomy
VerdictMessages == {"Correct!", "Result not 24", "Numbers mismatched", "Didn't use all the cards"}

\* the call returned ok = False with a syntax/formatting error
FormatError ==
    result.kind = "return" /\ ~result.ok /\ result.msg \notin VerdictMessages

\* the call returned ok = False with a message kept for division by zero
DivisionError ==
    /\ result.kind = "return" /\ ~result.ok
    /\ result.msg \notin VerdictMessages \cup {"Brackets mismatched"}

C2_OnlyValidInfixAccepted == Done /\ result.ok => Ref(expression).ok

\* C3: check_expression never raises, and answers malformed input with
\* ok = False and a formatting error.
C3_NeverRaises ==
    Done => /\ result.kind = "return"
            /\ ~Ref(expression).ok => FormatError

\* C4: a division by zero met while evaluating an expression over the hand
\* is answered with ok = False and a division-by-zero message.
C4_DivisionByZeroReported ==
    Done /\ Ref(expression).ok /\ Ref(expression).dz
         /\ SameCards(Literals(expression), hand) => DivisionError

\* C5: an expression with unbalanced parentheses is answered with ok = False
\* and a formatting error.
C5_UnbalancedRejected == Done /\ ~Balanced(expression) => FormatError

\* C6: an expression holding a character other than a digit, an operator,
\* a parenthesis or a space is answered with ok = False and a syntax error.
C6_IllegalCharacterRejected == Done /\ HasIllegalCharacter(expression) => FormatError

\* C7: the list passed as nums holds the same values after the call as
\* before it.
C7_CardsUnchanged == Done => nums = hand

\* C8 as stated: any expression holding a literal with no matching remaining
\* card is answered (False, "Numbers mismatched").
C8_AnyExpression ==
    Done /\ ~SubCards(Literals(expression), hand)
    => result = Returned(FALSE, "Numbers mismatched")

\* C8: a well-formed expression that divides by no zero and holds a literal
\* with no matching remaining card is answered (False, "Numbers mismatched").
C8_NumbersMismatched ==
    Done /\ Evaluable /\ ~SubCards(Literals(expression), hand)
    => result = Returned(FALSE, "Numbers mismatched")

\* the literal 12 written for a hand that holds 1 and 2 but no 12
C8_Witness ==
    /\ Done /\ Evaluable
    /\ 12 \in Values(Literals(expression))
    /\ {1, 2} \subseteq Values(hand) /\ 12 \notin Values(hand)
    /\ result = Returned(FALSE, "Numbers mismatched")

\* C9: a well-formed expression that divides by no zero and uses a strict
\* sub-multiset of the hand is answered (False, "Didn't use all the cards"),
\* whatever its value.
C9_UnusedCards ==
    Done /\ Evaluable /\ SubCards(Literals(expression), hand)
         /\ ~SameCards(Literals(expression), hand)
    => result = Returned(FALSE, "Didn't use all the cards")

\* an expression worth exactly 24 that leaves a card unused
C9_Witness ==
    /\ Done /\ Evaluable /\ ExactIs24
    /\ SubCards(Literals(expression), hand) /\ ~SameCards(Literals(expression), hand)
    /\ result = Returned(FALSE, "Didn't use all the cards")

----------------------------------------------------------------------------
(* Claims about solve24                                                    *)

NonNegativeHand == \A j \in 1..Len(hand) : hand[j] >= 0

\* C10 as stated: for every hand, the expression solve24 returns is answered
\* (True, "Correct!") by check_expression on a copy of the hand.
C10_AnyHand == pc = "checked" => result = Correct

\* C10: for every hand of four non-negative cards, the expression solve24
\* returns is answered (True, "Correct!") by check_expression on a copy of
\* the hand.
C10_SolutionValidates == pc = "checked" /\ NonNegativeHand => result = Correct

\* a returned solution that divides, over a hand with a two-digit card,
\* validated by check_expression
C10_Witness ==
    /\ pc = "checked" /\ NonNegativeHand /\ result = Correct
    /\ \E j \in 1..Len(hand) : hand[j] >= 10
    /\ \E j \in 1..Len(expression) : expression[j] = "/"

\* the exact values n/d of the expressions whose leaves are the cards of q
\* in this order, under every grouping and every choice of operators, a
\* division by zero making the expression worthless
RECURSIVE TreeValues(_)
TreeValues(q) ==
    IF Len(q) = 1 THEN {PyFloat(q[1], 1)}
    ELSE UNION {
           UNION {
             {PyFloat(x.n * y.d + y.n * x.d, x.d * y.d),
              PyFloat(x.n * y.d - y.n * x.d, x.d * y.d),
              PyFloat(x.n * y.n, x.d * y.d)}
             \cup (IF y.n # 0 THEN {PyFloat(x.n * y.d, x.d * y.n)} ELSE {}) :
             x \in TreeValues(SubSeq(q, 1, k)), y \in TreeValues(SubSeq(q, k + 1, Len(q)))} :
           k \in 1..(Len(q) - 1)}

\* some expression that uses each card of h exactly once is worth exactly 24
Solvable(h) == \E o \in Orderings(h, Len(h)) : PyFloat(24, 1) \in TreeValues(o)

\* C11: solve24 is complete: for a hand that some expression using each card
\* exactly once brings to exactly 24 without dividing by zero, solve24
\* returns an expression and not None.
C11_Complete ==
    pc \in {"returned", "checked"} /\ Solvable(hand) => solution # None

\* a hand whose only way to 24 goes through fractions, solved
C11_Witness ==
    /\ pc = "returned" /\ hand = <<3, 3, 8, 8>> /\ Solvable(hand)
    /\ solution # None

\* C12: solve24 returns an expression only when the exact value of that
\* expression is 24: a hand with no exact solution gets None.
C12_ExactOnly ==
    pc \in {"returned", "checked"} /\ solution # None
    => /\ Solvable(hand)
       /\ NonNegativeHand => Ref(solution).ok /\ Ref(solution).n = 24 /\ Ref(solution).d = 1

\* the text reads as an expression none of whose divisions has a divisor
\* worth zero
DividesByNoZero(text) == \E x \in {Ref(text)} : x.ok /\ ~x.dz

\* C13: every state a step pushes on the work list, and the expression a
\* step returns, holds no division whose divisor is worth zero (the texts of
\* a hand with a negative card are outside the expression grammar and are
\* not read).
C13_NoZeroDivisor ==
    [][NonNegativeHand =>
         /\ \A j \in (Len(stack)..Len(stack')) \ {0} :
               \A m \in 1..Len(stack'[j]) : DividesByNoZero(stack'[j][m].t)
         /\ solution' # None => DividesByNoZero(solution')]_vars

\* the state about to be expanded holds an element worth zero that was
\* computed from cards, next to another element: the quotient by it is the
\* one the expansion leaves out
C13_Witness ==
    /\ pc = "search" /\ Len(stack) # 0 /\ NonNegativeHand
    /\ Len(stack[Len(stack)]) = 2
    /\ stack[Len(stack)][1].v.n = 0 /\ Len(stack[Len(stack)][1].t) > 1
    /\ stack[Len(stack)][2].v.n # 0
    /\ Len(gather(stack[Len(stack)])) = 5

RECURSIVE Cost(_)
Cost(k) == IF k <= 1 THEN 1 ELSE 1 + 3 * k * (k - 1) * Cost(k - 1)

RECURSIVE Work(_)
Work(q) == IF q = <<>> THEN 0 ELSE Cost(Len(Head(q))) + Work(Tail(q))

\* C17: solve24 terminates for every hand of four cards: every state an
\* expansion pushes has one element fewer than the state it popped, every
\* iteration of the loop lowers the work left on the list, which starts at
\* no more than 36 * Cost(3), and the call returns.
C17_Terminates ==
    /\ [][pc = "search" /\ stack # <<>>
            => /\ Work(stack') < Work(stack)
               /\ \A j \in (Len(stack)..Len(stack')) \ {0} :
                     Len(stack'[j]) = Len(stack[Len(stack)]) - 1 /\ Len(stack'[j]) >= 1]_vars
    /\ [](pc = "search" => Work(stack) <= 36 * Cost(3))
    /\ <>(pc \in {"returned", "checked"})

\* the search came to its end by emptying the work list
C17_Witness ==
    pc = "returned" /\ solution = None /\ stack = <<>> /\ Len(hand) = 4

\* the literals of the texts of a state, element after element
IsLiteralToken(tok) == tok.t = "num"

TextLiterals(text) ==
    LET ts == SelectSeq(RefTokens(text, 1), IsLiteralToken)
    IN  [j \in 1..Len(ts) |-> ts[j].v]

RECURSIVE StateLiterals(_)
StateLiterals(state) ==
    IF state = <<>> THEN <<>> ELSE TextLiterals(Head(state).t) \o StateLiterals(Tail(state))

\* the value of the element is the exact value of its own text
ValueOfText(element) ==
    \E x \in {Ref(element.t)} :
        x.ok /\ ~x.dz /\ element.v.n = x.n /\ element.v.d = x.d

\* C20: every state on the work list has between 1 and 3 elements; in every
\* state a step pushes, the literals of the elements' texts are the four
\* cards of the hand, each once, and the value of every element is the
\* value of its own text (the texts of a hand with a negative card are
\* outside the expression grammar and are not read).
C20_WorkListStates ==
    /\ [](\A j \in 1..Len(stack) : Len(stack[j]) \in 1..3)
    /\ [][NonNegativeHand =>
            \A j \in (Len(stack)..Len(stack')) \ {0} :
                /\ \E cards \in {StateLiterals(stack'[j])} : SameCards(cards, hand)
                /\ \A m \in 1..Len(stack'[j]) : ValueOfText(stack'[j][m])]_vars

\* a state of two elements on top of the work list, one a card and one a
\* fraction computed from the three other cards
C20_Witness ==
    /\ pc = "search" /\ stack # <<>> /\ NonNegativeHand
    /\ Len(stack[Len(stack)]) = 2
    /\ stack[Len(stack)][1].v.d > 1
    /\ Len(TextLiterals(stack[Len(stack)][1].t)) = 3
    /\ SameCards(StateLiterals(stack[Len(stack)]), hand)
    /\ ValueOfText(stack[Len(stack)][1])

----------------------------------------------------------------------------
(* Further claims about check_expression                                   *)

\* C14: check_expression returns ok = True only for an expression whose
\* exact value is 24.
C14_OnlyExact24 == Done /\ result.ok /\ Evaluable => ExactIs24

\* the places of e between two tokens: between two characters that are not
\* both digits of one literal
TokenGaps(e) == {j \in 1..(Len(e) - 1) : ~(IsDigit(e[j]) /\ IsDigit(e[j + 1]))}

\* e with the characters blanks put in after its first j characters
WithBlanks(e, j, blanks) == SubSeq(e, 1, j) \o blanks \o SubSeq(e, j + 1, Len(e))

\* e with a space put in every place between two tokens, from place j on
RECURSIVE BlankEveryGap(_, _)
BlankEveryGap(e, j) ==
    IF j > Len(e) THEN <<>>
    ELSE IF j \in TokenGaps(e) THEN <<e[j], " ">> \o BlankEveryGap(e, j + 1)
    ELSE <<e[j]>> \o BlankEveryGap(e, j + 1)

\* C15: putting a space character between two tokens of the expression, at
\* one place or at every place, leaves the outcome of check_expression on
\* the hand as it was.
C15_SpacesBetweenTokens ==
    Done => /\ \A j \in TokenGaps(expression) :
                 check_expression(hand, WithBlanks(expression, j, <<" ">>)).res = result
            /\ check_expression(hand, BlankEveryGap(expression, 1)).res = result

\* an accepted expression with parentheses, which has places between tokens
\* next to a literal, an operator and a parenthesis
C15_Witness ==
    /\ Done /\ result = Correct /\ Evaluable
    /\ \E j \in TokenGaps(expression) : expression[j] = "(" /\ IsDigit(expression[j + 1])
    /\ \E j \in TokenGaps(expression) : IsDigit(expression[j]) /\ expression[j + 1] \in Operators
    /\ Len(BlankEveryGap(expression, 1)) > Len(expression) + 4
    /\ check_expression(hand, BlankEveryGap(expression, 1)).res = Correct

----------------------------------------------------------------------------
(* Claims about the room layer                                             *)

\* C18: every attempt hands check_expression a copy of the round's cards:
\* whatever the call removes, room.nums still holds the four cards that
\* start_round dealt for the round, and every "solved" broadcast carries
\* the four cards dealt for its round.
C18_RoomCardsKept ==
    /\ room.round_id > 0 =>
          Len(room.nums) = 4 /\ room.nums = sent.puzzle[room.round_id].nums
    /\ \A j \in 1..Len(sent.solved) :
          /\ Len(sent.solved[j].nums) = 4
          /\ sent.solved[j].nums = sent.puzzle[sent.solved[j].roundId].nums

\* an accepted attempt: the call has emptied the list it was given, the
\* room still holds the four cards and has broadcast them
C18_Witness ==
    /\ pc = "attempt" /\ result = Correct /\ nums = <<>>
    /\ Len(room.nums) = 4 /\ ~room.round_active
    /\ sent.solved # <<>>
    /\ sent.solved[Len(sent.solved)] =
          [roundId |-> room.round_id, nums |-> room.nums, by |-> sent.reply.to]

\* C19: when check_expression raises during an attempt, the attempt is
\* answered ok = False with "Error checking expression.", the connection
\* stays in its receive loop, and round_active, round_id, the scores and
\* coop_correct are as before.
C19_RaiseAnswered ==
    [][pc' = "attempt" /\ result'.kind = "raise"
       => /\ ~sent'.reply.ok
          /\ sent'.reply.message = "Error checking expression."
          /\ sent'.reply.to \in conns'.handlers
          /\ conns'.handlers = conns.handlers /\ conns'.leaving = conns.leaving
          /\ room'.round_active = room.round_active
          /\ room'.round_id = room.round_id
          /\ room'.scores = room.scores
          /\ room'.coop_correct = room.coop_correct]_vars

\* an attempt on which check_expression raised IndexError, answered, with
\* the round still open and the player still connected
C19_Witness ==
    /\ pc = "attempt" /\ result = Raised("IndexError")
    /\ sent.reply = [to |-> sent.reply.to, ok |-> FALSE, message |-> "Error checking expression."]
    /\ sent.reply.to \in conns.handlers
    /\ room.round_active

RECURSIVE SumOver(_, _)
SumOver(d, keys) ==
    IF keys = {} THEN 0
    ELSE LET k == CHOOSE k \in keys : TRUE IN d[k] + SumOver(d, keys \ {k})

\* the points the room has given: the sum of the scores, the team's count
Points(r) == SumOver(r.scores, DOMAIN r.scores) + r.coop_correct

AlreadySolved == "Round already solved. Wait for the next round."

\* C21: at most one attempt is accepted per round: the points of the room
\* rise only on an attempt made while the round is open, by one, and that
\* attempt closes the round without changing round_id; an attempt made while
\* the round is closed is answered "Round already solved. Wait for the next
\* round." and changes no score and not coop_correct; a closed round opens
\* again only under a new round_id.
C21_OneAcceptPerRound ==
    [][/\ Points(room') > Points(room)
          => /\ pc' = "attempt" /\ room.round_active /\ ~room'.round_active
             /\ Points(room') = Points(room) + 1
             /\ room'.round_id = room.round_id
       /\ pc' = "attempt" /\ ~room.round_active
          => /\ sent'.reply = [to |-> sent'.reply.to, ok |-> FALSE, message |-> AlreadySolved]
             /\ room'.scores = room.scores /\ room'.coop_correct = room.coop_correct
             /\ ~room'.round_active
       /\ ~room.round_active /\ room'.round_active => room'.round_id > room.round_id]_vars

\* two players on one round: the first was accepted, the second sent the
\* same winning expression and was told the round is solved
C21_Witness ==
    /\ pc = "attempt" /\ ~room.round_active
    /\ sent.reply.message = AlreadySolved
    /\ sent.solved # <<>>
    /\ sent.solved[Len(sent.solved)].roundId = room.round_id
    /\ sent.solved[Len(sent.solved)].by # sent.reply.to
    /\ check_expression(room.nums, expression).res = Correct
    /\ Points(room) = 1

\* C22: a round in progress is never replaced: start_round runs, giving a
\* new round_id, only while round_active is False.
C22_RoundNeverReplaced ==
    [][room'.round_id # room.round_id => ~room.round_active]_vars

====
